---- MODULE Spec2Model ----
(***************************************************************************)
(* Model of app.py: a Streamlit script that gates every call to the        *)
(* generative model behind a session quota (check_and_reset_quota), wraps  *)
(* the call in a tenacity retry (get_gemini_response) and substitutes      *)
(* canned payloads when the gate denies a call.                            *)
(*                                                                         *)
(* The script is evaluated top to bottom on every user interaction.  One   *)
(* evaluation is the chain                                                 *)
(*    idle -> dispatch -> (sg_gate | main_gate) -> ... -> chat -> idle     *)
(* and every position where the wall clock is read again is a step of its  *)
(* own, so that time may pass between two reads.                           *)
(***************************************************************************)
EXTENDS Integers, Sequences, FiniteSets

\* ---------------------------------------------------------------- constants
WindowMinutes == 60
DefaultQuota == 60
MinQuota == 10
DailyCap == 45
MaxAttempts == 3
MaxPages == 3
DefaultScore == 50
MaxScore == 100

\* ------------------------------------------------------------------- bounds
\* the clock stops advancing here (minutes since the session started)
MaxTime == 61
\* the model answers successfully only while api_call_count is below this
MaxCount == 11
\* in SpecProc the model answers successfully only while API_CALLS is below this
MaxApiCalls == 47
\* uploaded files are 1..MaxFile
MaxFile == 3
\* longest model text handed to match-score and array extraction
MaxLen == 4
\* longest of the two model texts handed to the skill-gap rendering
MaxPairLen == 3

\* --------------------------------------------------------------- input sets
\* how far the wall clock moves between two reads of datetime.now()
TickSteps == {WindowMinutes, WindowMinutes + 1}
\* the values the user types into the "API Call Limit" number_input
QuotaChoices == {MinQuota, DefaultQuota}
NoFile == 0
Files == 1..MaxFile
Actions == {"analysis", "enhance", "match", "skill_gap"}
\* what the call to generate_content / response.text does
Outcomes == {"ok", "ok_notext", "exception", "quota_exception"}
Advice == {"Advice1", "Advice2", "Advice3"}
ChatKinds == {"add_resume", "job_vacancy", "other"}
\* the characters of a model text: two decimal digits, the superscript two,
\* the brackets, an object literal, any other character
Chars == {"8", "7", "sup2", "[", "]", "o", "x"}
JsonChars == {"[", "]", "o", "8"}
Texts(alphabet, n) == UNION {[1..k -> alphabet] : k \in 0..n}

VARIABLES
    api_call_count,   \* st.session_state.api_call_count
    last_reset_time,  \* st.session_state.last_reset_time (minutes)
    quota_limit,      \* st.session_state.quota_limit
    current_action,   \* st.session_state.current_action ("None" or an action)
    resume_content,   \* st.session_state.resume_content (<<>> is None)
    pdf_processed,    \* st.session_state.pdf_processed
    API_CALLS,        \* module global
    advice_cache,     \* lru_cache of get_career_advice ("miss" or the cached value)
    now,              \* the wall clock, in minutes
    quota_widget,     \* value of the number_input widget
    uploaded_file,    \* value of the file_uploader widget
    jd_input,         \* whether the job-description text area is non-empty
    chat,             \* "none", or the kind of question asked with "Ask AI" in this run
    pc,               \* position of the script evaluation
    gpc,              \* position inside get_gemini_response ("none" when not in it)
    attempt,          \* tenacity attempt number of the running invocation
    calls,            \* generate_content calls issued by the running/last invocation
    ret,              \* kind of string returned by the last get_gemini_response
    pdf_content,      \* local pdf_content of the evaluation (<<>> is None)
    response,         \* local response of the analysis/enhance/match branch
    resp_src,         \* "none", "fallback" (gate denied) or "model"
    latch,            \* "none", "closed" (quota error in this window), "overridden"
    prev_fallback,    \* <<action, payload>> of the latest gate-denied evaluation
    skill_gaps_str,   \* first value returned by generate_skill_gap_learning_path
    learning_path_str,\* second value returned by generate_skill_gap_learning_path
    clicked,          \* whether an action button returned True in this evaluation
    rasterized,       \* runs of pdf2image.convert_from_bytes since the file changed
    post              \* a model text and what the page code extracts from it

session == <<api_call_count, last_reset_time, quota_limit, current_action,
             resume_content, pdf_processed>>
module == <<API_CALLS, advice_cache>>
widgets == <<quota_widget, uploaded_file, jd_input, chat>>
control == <<pc, gpc, attempt>>
observed == <<calls, ret, pdf_content, response, resp_src, latch,
              prev_fallback>>
locals == <<skill_gaps_str, learning_path_str>>
app == <<session, module, widgets, control, observed, locals, clicked, rasterized, now>>
vars == <<app, post>>

Min(a, b) == IF a < b THEN a ELSE b
Max(a, b) == IF a > b THEN a ELSE b

\* ------------------------------------------------------------ pure helpers
\* number of pages pdf2image yields for file f: file 1 has no bytes at all
\* (a file pdf2image rejects, lines 336-338, behaves the same: None comes back
\* and the session is left alone), file 2 has more pages than are kept, the
\* files after it fewer
Pages(f) == IF f = 2 THEN MaxPages + 1 ELSE f - 1

\* the first three page images of file f, each tagged with its file
PageImages(f) == [p \in 1..Min(MaxPages, Pages(f)) |-> <<f, p>>]

\* check_and_reset_quota: the value returned and the session fields after it
crq_le(count, last, limit, t) ==
    IF t - last > WindowMinutes
    THEN [ret |-> TRUE, count |-> 0, last |-> t]
    ELSE [ret |-> count <= limit, count |-> count, last |-> last]

crq_at_window(count, last, limit, t) ==
    IF t - last >= WindowMinutes
    THEN [ret |-> TRUE, count |-> 0, last |-> t]
    ELSE [ret |-> count < limit, count |-> count, last |-> last]

crq_no_reset_true(count, last, limit, t) ==
    IF t - last > WindowMinutes
    THEN [ret |-> count < limit, count |-> 0, last |-> t]
    ELSE [ret |-> count < limit, count |-> count, last |-> last]

crq_open(count, last, limit, t) ==
    IF t - last > WindowMinutes
    THEN [ret |-> TRUE, count |-> 0, last |-> t]
    ELSE [ret |-> TRUE, count |-> count, last |-> last]

check_and_reset_quota(count, last, limit, t) ==
    IF t - last > WindowMinutes
    THEN [ret |-> TRUE, count |-> 0, last |-> t]
    ELSE [ret |-> count < limit, count |-> count, last |-> last]

\* body of get_gemini_response from its try block on (lines 67-86), for one
\* outcome of the provider: whether an exception leaves the function, the
\* kind of string returned, the counters after it, and the number of
\* generate_content requests issued.  With pdf_content None the argument list
\* [user_input, *pdf_content, prompt] raises before the request is sent.
body_propagates(outcome, count, limit, api, pdf) ==
    IF pdf = <<>> \/ outcome = "exception"
    THEN [raised |-> TRUE, ret |-> "none", count |-> count, api |-> api,
          called |-> IF pdf = <<>> THEN 0 ELSE 1]
    ELSE IF outcome = "quota_exception"
    THEN [raised |-> FALSE, ret |-> "capacity", count |-> limit, api |-> api,
          called |-> 1]
    ELSE [raised |-> FALSE,
          ret |-> IF api + 1 > DailyCap THEN "daily"
                  ELSE IF outcome = "ok" THEN "text" ELSE "error_notext",
          count |-> count + 1, api |-> api + 1, called |-> 1]

body_no_latch(outcome, count, limit, api, pdf) ==
    IF pdf = <<>> \/ outcome = "exception"
    THEN [raised |-> FALSE, ret |-> "error", count |-> count, api |-> api,
          called |-> IF pdf = <<>> THEN 0 ELSE 1]
    ELSE IF outcome = "quota_exception"
    THEN [raised |-> FALSE, ret |-> "capacity", count |-> count, api |-> api,
          called |-> 1]
    ELSE [raised |-> FALSE,
          ret |-> IF api + 1 > DailyCap THEN "daily"
                  ELSE IF outcome = "ok" THEN "text" ELSE "error_notext",
          count |-> count + 1, api |-> api + 1, called |-> 1]

get_gemini_response(outcome, count, limit, api, pdf) ==
    IF pdf = <<>>
    THEN \* TypeError, caught at line 82; its text holds no "quota"
         [raised |-> FALSE, ret |-> "error", count |-> count, api |-> api,
          called |-> 0]
    ELSE IF outcome = "exception"
    THEN \* generate_content raised; no "quota" in the text (line 86)
         [raised |-> FALSE, ret |-> "error", count |-> count, api |-> api,
          called |-> 1]
    ELSE IF outcome = "quota_exception"
    THEN \* "quota" in the text (lines 83-85)
         [raised |-> FALSE, ret |-> "capacity", count |-> limit, api |-> api,
          called |-> 1]
    ELSE \* generate_content returned: lines 77-81.  With "ok_notext"
         \* the accessor response.text raises and line 86 answers
         \* ("error_notext": the same "Error: ..." string, counters moved).
         [raised |-> FALSE,
          ret |-> IF api + 1 > DailyCap THEN "daily"
                  ELSE IF outcome = "ok" THEN "text" ELSE "error_notext",
          count |-> count + 1, api |-> api + 1, called |-> 1]

\* get_career_advice("resume_improvement", ""): the lru_cache answers when it
\* holds the key, else random.choice picks one of the three entries
get_career_advice(cache, pick) == IF cache # "miss" THEN cache ELSE pick

\* the substitute response of lines 540-557
fallback_from_resume(action, advice) ==
    IF action = "match"
    THEN (IF Len(pdf_content) < MaxPages THEN "MatchScore72" ELSE "MatchScore50")
    ELSE IF action = "enhance" THEN advice
    ELSE "Summary"

FallbackResponse(action, advice) ==
    IF action = "match" THEN "MatchScore72"
    ELSE IF action = "enhance" THEN advice
    ELSE "Summary"

\* input_pdf_setup: the value returned and the two session fields after it
input_pdf_setup_stale(f, content, processed) ==
    IF f = NoFile
    THEN [result |-> <<>>, content |-> content, processed |-> processed,
          converted |-> FALSE]
    ELSE IF ~processed /\ content = <<>>
    THEN IF Pages(f) = 0
         THEN [result |-> <<>>, content |-> content, processed |-> processed,
               converted |-> FALSE]
         ELSE [result |-> PageImages(f), content |-> PageImages(f),
               processed |-> TRUE, converted |-> TRUE]
    ELSE [result |-> content, content |-> content, processed |-> TRUE,
          converted |-> FALSE]

input_pdf_setup(f, content, processed) ==
    IF f = NoFile
    THEN [result |-> <<>>, content |-> content, processed |-> processed,
          converted |-> FALSE]
    ELSE IF ~processed
    THEN IF Pages(f) = 0
         THEN [result |-> <<>>, content |-> content, processed |-> processed,
               converted |-> FALSE]
         ELSE [result |-> PageImages(f), content |-> PageImages(f),
               processed |-> TRUE, converted |-> TRUE]
    ELSE [result |-> content, content |-> content, processed |-> processed,
          converted |-> FALSE]

\* where the caller continues once get_gemini_response has returned `kind`;
\* line 370 looks for "quota" in the string, which only the gate-denied
\* message of line 65 contains
NextPc(at, kind) ==
    IF at = "sg_call1" THEN (IF kind = "denied" THEN "chat" ELSE "sg_call2")
    ELSE IF at \in {"sg_call2", "main_call"} THEN "chat"
    ELSE "idle"

\* the canned literals of generate_skill_gap_learning_path (lines 344-354 and
\* again 371-381): the skills of the array and the milestones of the path
FallbackSkills ==
    <<"Data Analysis", "Project Management", "Cloud Computing", "UI/UX Design",
      "DevOps">>

FallbackMilestones ==
    <<"Data Analysis Fundamentals", "Project Management Certification",
      "Cloud Computing Basics">>

Entries(payload) ==
    IF payload = "FallbackGaps" THEN FallbackSkills
    ELSE IF payload = "FallbackPath" THEN FallbackMilestones
    ELSE <<>>

sg_no_early_return(ok) == [returns |-> FALSE, gaps |-> "none", path |-> "none"]

\* generate_skill_gap_learning_path, lines 343-354: when the gate said no the
\* function returns the canned pair before building any prompt
SkillGapEarlyReturn(ok) ==
    IF ok THEN [returns |-> FALSE, gaps |-> "none", path |-> "none"]
    ELSE [returns |-> TRUE, gaps |-> "FallbackGaps", path |-> "FallbackPath"]

\* the pair generate_skill_gap_learning_path hands back (lines 369-390) once
\* get_gemini_response, called at `at`, has returned `kind`
SkillAfter(at, kind, cur) ==
    IF at = "sg_call1" THEN (IF kind = "denied" THEN "FallbackGaps" ELSE kind)
    ELSE cur

PathAfter(at, kind, cur) ==
    IF at = "sg_call1" THEN (IF kind = "denied" THEN "FallbackPath" ELSE cur)
    ELSE IF at = "sg_call2" THEN kind
    ELSE cur

\* the gate is shut by a quota error until the window resets or the user
\* raises the limit above the count
LatchAfterGate(g, last) == IF g.last # last THEN "none" ELSE latch

\* ------------------------------------------- post-processing of model text
\* a text is a sequence of characters; "sup2" is the superscript two, a
\* character str.isdigit accepts and int() rejects; "o" is a JSON object
\* literal with its separator, "x" any other character
Decimal == {"0", "1", "2", "3", "4", "5", "6", "7", "8", "9"}

DigitValue(c) ==
    CASE c = "0" -> 0 [] c = "1" -> 1 [] c = "2" -> 2 [] c = "3" -> 3
      [] c = "4" -> 4 [] c = "5" -> 5 [] c = "6" -> 6 [] c = "7" -> 7
      [] c = "8" -> 8 [] c = "9" -> 9 [] c = "sup2" -> 2

isdigit(c) == c \in Decimal \cup {"sup2"}

RECURSIVE Horner(_)
Horner(d) ==
    IF d = <<>> THEN 0
    ELSE 10 * Horner(SubSeq(d, 1, Len(d) - 1)) + DigitValue(d[Len(d)])

int_lenient(d) == [error |-> FALSE, value |-> Horner(d)]

\* int() of a non-empty string of isdigit characters: ValueError unless every
\* one of them is a decimal digit
int(d) ==
    IF \E i \in 1..Len(d) : d[i] \notin Decimal
    THEN [error |-> TRUE, value |-> 0]
    ELSE [error |-> FALSE, value |-> Horner(d)]

\* lines 571-575
match_score(text) ==
    LET d == SelectSeq(text, isdigit)
        n == IF d = <<>> THEN [error |-> FALSE, value |-> DefaultScore] ELSE int(d)
    IN  IF n.error THEN DefaultScore
        ELSE Max(0, Min(MaxScore, n.value))

\* str() of a natural number
RECURSIVE str(_)
str(n) ==
    LET c == CHOOSE x \in Decimal : DigitValue(x) = n % 10
    IN  IF n < 10 THEN <<c>> ELSE Append(str(n \div 10), c)

search_lazy(text) ==
    LET starts == {i \in 1..Len(text) :
                     text[i] = "[" /\ \E j \in (i + 1)..Len(text) : text[j] = "]"}
    IN  IF starts = {} THEN <<"[", "]">>
        ELSE LET i == CHOOSE a \in starts : \A b \in starts : a <= b
                 ends == {j \in (i + 1)..Len(text) : text[j] = "]"}
                 j == CHOOSE a \in ends : \A b \in ends : a <= b
             IN  SubSeq(text, i, j)

\* lines 473-474 and 476-477: re.search(r'\[.*\]', text, re.DOTALL) takes the
\* leftmost position a match can start at and, '.*' being greedy, the longest
\* match from there; without a match the literal "[]" stands in
search(text) ==
    LET starts == {i \in 1..Len(text) :
                     text[i] = "[" /\ \E j \in (i + 1)..Len(text) : text[j] = "]"}
    IN  IF starts = {} THEN <<"[", "]">>
        ELSE LET i == CHOOSE a \in starts : \A b \in starts : a <= b
                 ends == {j \in (i + 1)..Len(text) : text[j] = "]"}
                 j == CHOOSE a \in ends : \A b \in ends : a >= b
             IN  SubSeq(text, i, j)

\* nesting depth after the first i characters of s
Depth(s, i) ==
    Cardinality({k \in 1..i : s[k] = "["}) - Cardinality({k \in 1..i : s[k] = "]"})

\* json.loads of a string that begins with "[": whether it parses, how many
\* items the list has and whether all of them are objects
loads(s) ==
    LET ok == /\ Len(s) >= 2 /\ s[1] = "["
              /\ \A k \in 1..Len(s) : s[k] \in {"[", "]", "o"} \cup Decimal
              /\ \A k \in 1..(Len(s) - 1) : Depth(s, k) >= 1
              /\ Depth(s, Len(s)) = 0
        items == {k \in 2..(Len(s) - 1) : Depth(s, k - 1) = 1 /\ s[k] # "]"}
    IN  IF ok
        THEN [ok |-> TRUE, n |-> Cardinality(items),
              objects |-> \A k \in items : s[k] = "o"]
        ELSE [ok |-> FALSE, n |-> 0, objects |-> FALSE]

NothingShown(err) ==
    [error |-> err, gaps_shown |-> FALSE, gaps |-> 0, path_shown |-> FALSE, path |-> 0]

render_degrades(gaps_text, path_text) ==
    LET g == loads(search(gaps_text))
        p == loads(search(path_text))
    IN  [error |-> FALSE,
         gaps_shown |-> TRUE, gaps |-> IF g.ok /\ g.objects THEN g.n ELSE 0,
         path_shown |-> TRUE, path |-> IF p.ok /\ p.objects THEN p.n ELSE 0]

\* lines 471-536: what the try block has put on the page, and whether the
\* except clause of line 535 reported an error
render(gaps_text, path_text) ==
    LET g == loads(search(gaps_text))
        p == loads(search(path_text))
    IN  IF ~g.ok \/ ~p.ok \/ ~g.objects THEN NothingShown(TRUE)
        ELSE IF ~p.objects
        THEN [error |-> TRUE, gaps_shown |-> TRUE, gaps |-> g.n,
              path_shown |-> FALSE, path |-> 0]
        ELSE [error |-> FALSE, gaps_shown |-> TRUE, gaps |-> g.n,
              path_shown |-> TRUE, path |-> p.n]

\* ------------------------------------------------------------------- Init
InitApp ==
    /\ api_call_count = 0
    /\ last_reset_time = 0
    /\ quota_limit = DefaultQuota
    /\ current_action = "None"
    /\ resume_content = <<>>
    /\ pdf_processed = FALSE
    /\ API_CALLS = 0
    /\ advice_cache = "miss"
    /\ now = 0
    /\ quota_widget = DefaultQuota
    /\ uploaded_file = NoFile
    /\ jd_input = FALSE
    /\ chat = "none"
    /\ pc = "idle"
    /\ gpc = "none"
    /\ attempt = 1
    /\ calls = 0
    /\ ret = "none"
    /\ pdf_content = <<>>
    /\ response = "none"
    /\ resp_src = "none"
    /\ latch = "none"
    /\ prev_fallback = <<"none", "none">>
    /\ skill_gaps_str = "none"
    /\ learning_path_str = "none"
    /\ clicked = FALSE
    /\ rasterized = 0

NoPage == NothingShown(FALSE)

Init ==
    /\ InitApp
    /\ post = [op |-> "off", text |-> <<>>, text2 |-> <<>>, score |-> 0,
               array |-> <<>>, page |-> NoPage]

\* ------------------------------------------------------- script evaluation
\* A user interaction starts an evaluation of the script from its first line:
\* the module globals are bound again (line 21, lines 89-90), the sidebar
\* stores the number_input value (line 411), the file_uploader on_change has
\* cleared pdf_processed (line 424) and the clicked button sets current_action
\* (lines 430-440).
Rerun(q, f, jd, act, ask) ==
    /\ pc = "idle" /\ gpc = "none"
    /\ skill_gaps_str' = "none" /\ learning_path_str' = "none"
    /\ API_CALLS' = 0
    /\ advice_cache' = "miss"
    /\ quota_widget' = q
    /\ quota_limit' = q
    /\ uploaded_file' = f
    /\ pdf_processed' = IF f # uploaded_file THEN FALSE ELSE pdf_processed
    /\ rasterized' = IF f # uploaded_file THEN 0 ELSE rasterized
    /\ jd_input' = jd
    /\ current_action' = act
    /\ chat' = ask
    /\ pc' = "dispatch"
    /\ calls' = 0 /\ ret' = "none" /\ response' = "none" /\ resp_src' = "none"
    /\ pdf_content' = <<>>
    /\ latch' = IF latch = "closed" /\ q > api_call_count THEN "overridden" ELSE latch
    /\ UNCHANGED <<api_call_count, last_reset_time, resume_content, gpc, attempt,
                   prev_fallback, now, post>>

ClickAction ==
    \E a \in Actions :
        Rerun(quota_widget, uploaded_file, jd_input, a, "none") /\ clicked' = TRUE

SetQuota ==
    \E q \in QuotaChoices :
        /\ q # quota_widget
        /\ Rerun(q, uploaded_file, jd_input, current_action, "none")
        /\ clicked' = FALSE

Upload ==
    \E f \in Files \cup {NoFile} :
        /\ f # uploaded_file
        /\ Rerun(quota_widget, f, jd_input, current_action, "none")
        /\ clicked' = FALSE

EditJD ==
    /\ Rerun(quota_widget, uploaded_file, ~jd_input, current_action, "none")
    /\ clicked' = FALSE

AskAI ==
    \E k \in ChatKinds :
        Rerun(quota_widget, uploaded_file, jd_input, current_action, k) /\ clicked' = FALSE

\* lines 449-459 and 581-584
Dispatch ==
    /\ pc = "dispatch"
    /\ IF uploaded_file # NoFile /\ jd_input
       THEN LET s == input_pdf_setup(uploaded_file, resume_content, pdf_processed) IN
            /\ resume_content' = s.content
            /\ pdf_processed' = s.processed
            /\ rasterized' = IF s.converted THEN rasterized + 1 ELSE rasterized
            /\ pdf_content' = s.result
            /\ pc' = IF s.result # <<>>
                     THEN (IF current_action = "skill_gap" THEN "sg_gate" ELSE "main_gate")
                     ELSE "chat"
       ELSE /\ pc' = "chat"
            /\ UNCHANGED <<resume_content, pdf_processed, pdf_content, rasterized>>
    /\ UNCHANGED <<api_call_count, last_reset_time, quota_limit, current_action,
                   module, widgets, gpc, attempt, calls, ret, response,
                   resp_src, latch, prev_fallback, locals, clicked, now, post>>

\* generate_skill_gap_learning_path, lines 343-354: the gate, then either the
\* canned pair or the first call
SkillGapGate ==
    /\ pc = "sg_gate"
    /\ LET g == check_and_reset_quota(api_call_count, last_reset_time, quota_limit, now) IN
       /\ api_call_count' = g.count
       /\ last_reset_time' = g.last
       /\ latch' = LatchAfterGate(g, last_reset_time)
       /\ LET e == SkillGapEarlyReturn(g.ret) IN
          IF e.returns
          THEN /\ pc' = "chat"
               /\ skill_gaps_str' = e.gaps
               /\ learning_path_str' = e.path
               /\ UNCHANGED <<gpc, attempt>>
          ELSE /\ pc' = "sg_call1" /\ gpc' = "gate" /\ attempt' = 1
               /\ UNCHANGED locals
    /\ UNCHANGED <<rasterized, quota_limit, current_action, resume_content, pdf_processed,
                   module, widgets, calls, ret, pdf_content, response, resp_src,
                   prev_fallback, clicked, now, post>>

\* lines 539-566: the gate of the analysis/enhance/match branch
MainGate ==
    /\ pc = "main_gate"
    /\ LET g == check_and_reset_quota(api_call_count, last_reset_time, quota_limit, now) IN
       /\ api_call_count' = g.count
       /\ last_reset_time' = g.last
       /\ latch' = LatchAfterGate(g, last_reset_time)
       /\ IF g.ret
          THEN /\ pc' = "main_call" /\ gpc' = "gate" /\ attempt' = 1
               /\ UNCHANGED <<advice_cache, response, resp_src, prev_fallback>>
          ELSE \E pick \in Advice :
               LET adv == get_career_advice(advice_cache, pick)
                   payload == FallbackResponse(current_action, adv) IN
               /\ pc' = "chat"
               /\ advice_cache' = IF current_action = "enhance" THEN adv ELSE advice_cache
               /\ response' = payload
               /\ resp_src' = "fallback"
               /\ prev_fallback' = <<current_action, payload>>
               /\ UNCHANGED <<gpc, attempt>>
    /\ UNCHANGED <<rasterized, quota_limit, current_action, resume_content, pdf_processed,
                   API_CALLS, widgets, calls, ret, pdf_content, locals, clicked, now, post>>

\* get_gemini_response, lines 60-65: the function is entered (again, on a
\* retry), sleeps and asks the gate
GeminiGate ==
    /\ gpc = "gate"
    /\ LET g == check_and_reset_quota(api_call_count, last_reset_time, quota_limit, now) IN
       /\ api_call_count' = g.count
       /\ last_reset_time' = g.last
       /\ latch' = LatchAfterGate(g, last_reset_time)
       /\ calls' = IF attempt = 1 THEN 0 ELSE calls
       /\ IF g.ret
          THEN /\ gpc' = "call"
               /\ ret' = "none"
               /\ UNCHANGED <<pc, attempt, response, resp_src, chat, locals, clicked>>
          ELSE /\ ret' = "denied"
               /\ pc' = NextPc(pc, "denied")
               /\ skill_gaps_str' = SkillAfter(pc, "denied", skill_gaps_str)
               /\ learning_path_str' = PathAfter(pc, "denied", learning_path_str)
               /\ clicked' = IF NextPc(pc, "denied") = "idle" THEN FALSE ELSE clicked
               /\ gpc' = "none"
               /\ attempt' = 1
               /\ response' = IF pc = "main_call" THEN "denied" ELSE response
               /\ resp_src' = IF pc = "main_call" THEN "model" ELSE resp_src
               /\ chat' = IF pc = "chat_call" THEN "none" ELSE chat
    /\ UNCHANGED <<rasterized, quota_limit, current_action, resume_content, pdf_processed,
                   module, quota_widget, uploaded_file, jd_input, pdf_content,
                   prev_fallback, now, post>>

\* get_gemini_response, lines 67-86 under the retry decorator of line 55: the
\* body runs; an exception leaving it is retried until the third attempt, and
\* then tenacity raises RetryError to the caller
GeminiCallWith(answers) ==
    /\ gpc = "call"
    /\ \E outcome \in Outcomes :
       /\ outcome \in {"ok", "ok_notext"} => answers
       /\ LET r == get_gemini_response(outcome, api_call_count, quota_limit,
                                       API_CALLS, pdf_content)
              kind == IF r.raised THEN "RetryError" ELSE r.ret IN
          /\ api_call_count' = r.count
          /\ API_CALLS' = r.api
          /\ calls' = calls + r.called
          /\ latch' = IF ~r.raised /\ r.ret = "capacity" THEN "closed" ELSE latch
          /\ IF r.raised /\ attempt < MaxAttempts
             THEN /\ gpc' = "gate"
                  /\ attempt' = attempt + 1
                  /\ UNCHANGED <<pc, ret, response, resp_src, chat, locals, clicked>>
             ELSE /\ ret' = kind
                  /\ pc' = IF r.raised THEN "idle" ELSE NextPc(pc, kind)
                  /\ skill_gaps_str' =
                        IF r.raised THEN skill_gaps_str
                        ELSE SkillAfter(pc, kind, skill_gaps_str)
                  /\ learning_path_str' =
                        IF r.raised THEN learning_path_str
                        ELSE PathAfter(pc, kind, learning_path_str)
                  /\ clicked' = IF r.raised \/ NextPc(pc, kind) = "idle"
                                THEN FALSE ELSE clicked
                  /\ gpc' = IF pc = "sg_call1" /\ ~r.raised THEN "gate" ELSE "none"
                  /\ attempt' = 1
                  /\ response' = IF pc = "main_call" THEN kind ELSE response
                  /\ resp_src' = IF pc = "main_call" THEN "model" ELSE resp_src
                  /\ chat' = IF pc = "chat_call" \/ r.raised THEN "none" ELSE chat
    /\ UNCHANGED <<rasterized, last_reset_time, quota_limit, current_action, resume_content,
                   pdf_processed, advice_cache, quota_widget, uploaded_file,
                   jd_input, pdf_content, prev_fallback, now, post>>

GeminiCall == GeminiCallWith(api_call_count < MaxCount)

\* lines 592-628: the "Ask AI" button
Chat ==
    /\ pc = "chat"
    /\ IF chat # "none" /\ uploaded_file # NoFile
       THEN LET s == input_pdf_setup(uploaded_file, resume_content, pdf_processed) IN
            /\ resume_content' = s.content
            /\ pdf_processed' = s.processed
            /\ rasterized' = IF s.converted THEN rasterized + 1 ELSE rasterized
            /\ pdf_content' = s.result
            /\ IF chat = "other"
               THEN /\ pc' = "chat_call" /\ gpc' = "gate" /\ attempt' = 1
                    /\ UNCHANGED <<advice_cache, chat, clicked>>
               ELSE /\ pc' = "idle" /\ chat' = "none" /\ clicked' = FALSE
                    /\ UNCHANGED <<gpc, attempt>>
                    /\ IF chat = "add_resume"
                       THEN \E found \in BOOLEAN, pick \in Advice :
                            advice_cache' = IF found /\ s.result # <<>>
                                            THEN advice_cache
                                            ELSE get_career_advice(advice_cache, pick)
                       ELSE UNCHANGED advice_cache
       ELSE /\ pc' = "idle" /\ chat' = "none" /\ clicked' = FALSE
            /\ UNCHANGED <<resume_content, pdf_processed, pdf_content, gpc, attempt,
                           advice_cache, rasterized>>
    /\ UNCHANGED <<api_call_count, last_reset_time, quota_limit, current_action,
                   API_CALLS, quota_widget, uploaded_file, jd_input, calls,
                   ret, response, resp_src, latch, prev_fallback, locals, now, post>>

\* the wall clock moves on, also in the middle of an evaluation
Tick ==
    /\ \E d \in TickSteps : now + d <= MaxTime /\ now' = now + d
    /\ UNCHANGED <<session, module, widgets, control, observed, locals, clicked,
                   rasterized, post>>

Next ==
    \/ ClickAction
    \/ SetQuota
    \/ Upload
    \/ EditJD
    \/ AskAI
    \/ Dispatch
    \/ SkillGapGate
    \/ MainGate
    \/ GeminiGate
    \/ GeminiCall
    \/ Chat
    \/ Tick

Spec == Init /\ [][Next]_vars

\* ----------------------------------------------- the module kept loaded
\* get_gemini_response invoked again and again on one binding of the module
\* globals, which is what makes API_CALLS a process-wide counter (line 20).
ProcInvoke ==
    /\ pc = "idle" /\ gpc = "none"
    /\ \E pdf \in {<<>>, PageImages(2)} : pdf_content' = pdf
    /\ gpc' = "gate"
    /\ attempt' = 1
    /\ UNCHANGED <<session, module, widgets, pc, calls, ret, response, resp_src,
                   latch, prev_fallback, locals, clicked, rasterized, now, post>>

ProcCall == GeminiCallWith(API_CALLS < MaxApiCalls)

NextProc ==
    \/ ProcInvoke
    \/ GeminiGate
    \/ ProcCall
    \/ Tick

SpecProc == Init /\ [][NextProc]_vars

\* ------------------------------------------- the page code on a model text
\* the session is at rest; a model reply, or the pair of replies of the
\* skill-gap action, is handed to the code that post-processes it
InitPost ==
    /\ InitApp
    /\ \/ \E t \in Texts(Chars, MaxLen) :
            post = [op |-> "reply", text |-> t, text2 |-> <<>>, score |-> 0,
                    array |-> <<>>, page |-> NoPage]
       \/ \E t \in Texts(JsonChars, MaxPairLen), u \in Texts(JsonChars, MaxPairLen) :
            post = [op |-> "pair", text |-> t, text2 |-> u, score |-> 0,
                    array |-> <<>>, page |-> NoPage]

\* lines 570-575
ExtractScore ==
    /\ post.op = "reply"
    /\ post' = [post EXCEPT !.op = "match_score", !.score = match_score(post.text)]
    /\ UNCHANGED app

\* the score is shown as decimal text and read back
ReExtractScore ==
    /\ post.op = "match_score"
    /\ post' = [post EXCEPT !.op = "match_score_again",
                            !.score = match_score(str(post.score))]
    /\ UNCHANGED app

\* lines 473-474
ExtractArray ==
    /\ post.op = "reply"
    /\ post' = [post EXCEPT !.op = "search", !.array = search(post.text)]
    /\ UNCHANGED app

\* lines 471-536
RenderSkillGap ==
    /\ post.op = "pair"
    /\ post' = [post EXCEPT !.op = "render", !.page = render(post.text, post.text2)]
    /\ UNCHANGED app

NextPost ==
    \/ ExtractScore
    \/ ReExtractScore
    \/ ExtractArray
    \/ RenderSkillGap

SpecPost == InitPost /\ [][NextPost]_vars

\* ------------------------------------------------------------------ claims
\* a step that evaluates check_and_reset_quota, and the value it returned as
\* seen in where the caller went
AtGate == pc \in {"sg_gate", "main_gate"} \/ gpc = "gate"
GateStep == AtGate /\ (pc' # pc \/ gpc' # gpc)
GateTrue == IF gpc = "gate" THEN gpc' = "call" ELSE pc' \in {"sg_call1", "main_call"}
Elapsed == now - last_reset_time

\* C1 as stated: in every reachable state api_call_count <= quota_limit.
C1_CountWithinLimit == api_call_count <= quota_limit

\* C1 amended: api_call_count <= quota_limit is preserved by every step that
\* does not lower quota_limit, and api_call_count never grows to a value above
\* quota_limit; only the user lowering the limit below the count breaks it.
C1_CountWithinLimitUnlessLowered ==
    [][ /\ (api_call_count <= quota_limit /\ quota_limit' >= quota_limit)
              => api_call_count' <= quota_limit'
        /\ api_call_count' > api_call_count => api_call_count' <= quota_limit'
      ]_vars

C1_Witness ==
    /\ api_call_count = quota_limit
    /\ ret = "denied"
    /\ latch = "none"
    /\ Elapsed <= WindowMinutes

\* C2: a gate check resets api_call_count to 0 and last_reset_time to the
\* current time exactly when more than 60 minutes have elapsed, leaves both
\* alone otherwise, and no other step moves last_reset_time or zeroes the count.
C2_ResetIffWindowElapsed ==
    [][ /\ GateStep =>
              IF Elapsed > WindowMinutes
              THEN api_call_count' = 0 /\ last_reset_time' = now
              ELSE api_call_count' = api_call_count /\ last_reset_time' = last_reset_time
        /\ ~GateStep =>
              /\ last_reset_time' = last_reset_time
              /\ api_call_count' = 0 => api_call_count = 0
      ]_vars

C2_Witness ==
    /\ last_reset_time = now
    /\ now > WindowMinutes
    /\ api_call_count = 0
    /\ gpc = "call"

\* C3: check_and_reset_quota returns true exactly when, after the reset it
\* may have performed, api_call_count < quota_limit.
C3_GateTrueIffBelowLimit ==
    [][ GateStep => (GateTrue <=> api_call_count' < quota_limit') ]_vars

C3_Witness ==
    /\ quota_limit = DefaultQuota
    /\ api_call_count = DefaultQuota
    /\ Elapsed <= WindowMinutes
    /\ ret = "denied"

\* C4: generate_content is never reached in a state where the quota is used
\* up and the window has not elapsed, whichever path leads to it.
C4_CallsAreGated ==
    gpc = "call" => ~(api_call_count >= quota_limit /\ Elapsed <= WindowMinutes)

C4_Witness ==
    /\ pc = "sg_call2"
    /\ gpc = "call"
    /\ api_call_count = quota_limit - 1

\* C5 as stated: after a quota error every gate check is denied until the
\* window has elapsed.
C5_LatchedUntilWindow ==
    (latch # "none" /\ Elapsed <= WindowMinutes) => api_call_count >= quota_limit

\* C5 amended: the quota error sets api_call_count to quota_limit, and from
\* then on every gate check is denied until the window has elapsed or the
\* user has raised quota_limit above api_call_count.
C5_LatchedUntilWindowOrRaise ==
    [][ /\ (ret' = "capacity" /\ ret # "capacity") => api_call_count' = quota_limit'
        /\ (latch = "closed" /\ GateStep /\ Elapsed <= WindowMinutes) => ~GateTrue
        /\ (latch' = "closed" /\ Elapsed' <= WindowMinutes) => api_call_count' >= quota_limit'
      ]_vars

C5_Witness ==
    /\ latch = "closed"
    /\ ret = "denied"
    /\ Elapsed <= WindowMinutes

\* C6: a call that returns the gate-denied message, the limit message or an
\* error string has not incremented api_call_count.
C6_NoIncrementWithoutText ==
    [][ (ret' # ret /\ ret' \in {"denied", "daily", "error", "error_notext"})
            => api_call_count' = api_call_count ]_vars

\* C7: when generate_content fails transiently, the error string is returned
\* only after three attempts.
C7_ThreeAttempts ==
    (ret = "error" /\ pdf_content # <<>>) => calls = MaxAttempts

C9_AlwaysString ==
    /\ ret \in {"none", "denied", "text", "daily", "capacity", "error", "error_notext"}
    /\ attempt = 1

C9_Witness ==
    /\ ret = "error"
    /\ pdf_content = <<>>
    /\ calls = 0
    /\ uploaded_file # NoFile

FallbackTable(action) ==
    IF action = "match" THEN {"MatchScore72"}
    ELSE IF action = "enhance" THEN Advice
    ELSE {"Summary"}

C11_DeniedSkillGapIsCanned ==
    [][ (pc = "sg_gate" /\ GateStep /\ api_call_count >= quota_limit
           /\ Elapsed <= WindowMinutes)
          => /\ pc' = "chat" /\ gpc' = "none"
             /\ skill_gaps_str' = "FallbackGaps"
             /\ learning_path_str' = "FallbackPath"
             /\ Len(Entries(skill_gaps_str')) = 5
             /\ Len(Entries(learning_path_str')) = 3
             /\ calls' = 0 /\ calls = 0
             /\ api_call_count' = api_call_count
             /\ API_CALLS' = API_CALLS
      ]_vars

C11_Witness ==
    /\ pc = "chat"
    /\ current_action = "skill_gap"
    /\ skill_gaps_str = "FallbackGaps"
    /\ learning_path_str = "FallbackPath"
    /\ ret = "none"
    /\ api_call_count >= quota_limit

\* the analysis section (lines 449-579) is at a gate or inside a call
InAnalysis == pc \in {"sg_gate", "sg_call1", "sg_call2", "main_gate", "main_call"}

\* C16 as stated: the analysis section reaches a gate, a call or a fallback
\* only in an evaluation in which one of the four action buttons was clicked,
\* and an evaluation started by anything else leaves api_call_count alone there.
C16_AnalysisOnlyOnClick ==
    InAnalysis => clicked /\ current_action # "None"

\* C15: the cached resume_content holds at most 3 page images; between two
\* changes of the uploaded file pdf2image runs at most once, and once the file
\* is processed later calls keep the flag and the cached sequence; and every
\* image input_pdf_setup returns is an image of the file uploaded now.
C15_CachedOncePerFile ==
    [][ /\ Len(resume_content) <= MaxPages /\ Len(resume_content') <= MaxPages
        /\ rasterized' <= 1
        /\ (pdf_processed /\ uploaded_file' = uploaded_file)
              => (pdf_processed' /\ resume_content' = resume_content
                  /\ rasterized' = rasterized)
        /\ \A i \in 1..Len(pdf_content') : pdf_content'[i][1] = uploaded_file'
      ]_vars

\* the analysis section rasterized the two-page file and the chat handler of
\* the same evaluation got the same images back from the cache
C15_Witness ==
    /\ uploaded_file = 3
    /\ pdf_content = PageImages(3)
    /\ resume_content = PageImages(3)
    /\ rasterized = 1
    /\ pc = "chat_call"
    /\ response # "none"
    /\ pdf_processed

\* the integer a string of digit characters denotes, place by place
RECURSIVE Pow10(_)
Pow10(k) == IF k = 0 THEN 1 ELSE 10 * Pow10(k - 1)

RECURSIVE PlaceSum(_, _)
PlaceSum(d, i) ==
    IF i > Len(d) THEN 0
    ELSE DigitValue(d[i]) * Pow10(Len(d) - i) + PlaceSum(d, i + 1)

Clamp(n) == IF n < 0 THEN 0 ELSE IF n > MaxScore THEN MaxScore ELSE n

\* C12 as stated: the score is the clamp to [0,100] of the integer formed by
\* all the digit characters (0-9) of the text in order, and 50 when there is
\* none.
IsDecimal(c) == c \in Decimal

C12_ScoreIsClampOfDigits ==
    post.op = "match_score" =>
        LET d == SelectSeq(post.text, IsDecimal)
        IN  post.score = IF d = <<>> THEN DefaultScore ELSE Clamp(PlaceSum(d, 1))

\* C12 amended: the score is always in [0,100]; it is the clamp of the integer
\* formed by the characters str.isdigit accepts when all of them are decimal
\* digits, 50 when there is none or when one of them is a digit int() rejects
\* (the ValueError handler); extracting again from the decimal text of a score
\* gives that score.
C12_ScoreIsClampOfDecimalDigits ==
    [][ /\ post'.op = "match_score" =>
              LET d == SelectSeq(post'.text, isdigit)
              IN  /\ post'.score \in 0..MaxScore
                  /\ post'.score =
                        IF d = <<>> \/ \E i \in 1..Len(d) : d[i] \notin Decimal
                        THEN DefaultScore
                        ELSE Clamp(PlaceSum(d, 1))
        /\ post'.op = "match_score_again" => post'.score = post.score
      ]_vars

\* "Match Score: 87% strong fit"
C12_Witness ==
    /\ post.op = "match_score_again"
    /\ post.text = <<"x", "8", "7", "x">>
    /\ post.score = 87

BracketPair(text) ==
    \E i \in 1..Len(text), j \in 1..Len(text) : i < j /\ text[i] = "[" /\ text[j] = "]"

\* C13 as stated: with a '[' followed later by a ']' the extraction selects
\* the first '[' to the last ']', otherwise it yields "[]"; and when the text
\* embeds a well-formed array, what comes back is a well-formed array.
C13_ArrayVerbatim ==
    post.op = "search" =>
        /\ post.array \in Seq(Chars)
        /\ (\E i \in 1..Len(post.text), j \in 1..Len(post.text) :
                loads(SubSeq(post.text, i, j)).ok)
              => loads(post.array).ok

\* C13 amended: with a '[' followed later by a ']' the extraction selects the
\* first '[' to the last ']' of the text, whatever lies between them, and
\* otherwise yields "[]"; an embedded array comes back verbatim when its
\* brackets are that first '[' and that last ']'.
C13_FirstOpenToLastClose ==
    post.op = "search" =>
        LET text == post.text
            opens == {i \in 1..Len(text) : text[i] = "["}
            closes == {j \in 1..Len(text) : text[j] = "]"}
        IN  IF BracketPair(text)
            THEN LET i == CHOOSE a \in opens : \A b \in opens : a <= b
                     j == CHOOSE a \in closes : \A b \in closes : a >= b
                 IN  /\ post.array = SubSeq(text, i, j)
                     /\ \A a \in opens, b \in closes :
                          (a < b /\ loads(SubSeq(text, a, b)).ok /\ a = i /\ b = j)
                             => post.array = SubSeq(text, a, b)
            ELSE post.array = <<"[", "]">>

C13_Witness ==
    /\ post.op = "search"
    /\ post.text = <<"x", "[", "o", "]">>
    /\ post.array = <<"[", "o", "]">>

\* a bracketed substring that is not valid JSON or not a list of objects
Bad(text) ==
    BracketPair(text) /\ (~loads(search(text)).ok \/ ~loads(search(text)).objects)

Malformed(text) == ~BracketPair(text) \/ Bad(text)

\* C14 as stated: a malformed skill-gap text gives an empty skill-gap list
\* that is rendered, a malformed learning-path text an empty learning path
\* that is rendered, and no error stops the rendering.
C14_MalformedIsEmpty ==
    post.op = "render" =>
        /\ Malformed(post.text) => (post.page.gaps_shown /\ post.page.gaps = 0)
        /\ Malformed(post.text2) => (post.page.path_shown /\ post.page.path = 0)

\* C14 amended: a text without brackets gives an empty list that is rendered;
\* a bracketed substring that is not valid JSON or not a list of objects, in
\* either text, ends in the handled "Error parsing AI response" message with
\* the learning path not rendered and the skill gaps rendered only if they and
\* the JSON of the path were good; the evaluation goes on in every case.
C14_MalformedIsEmptyOrReported ==
    post.op = "render" =>
        LET page == post.page IN
        /\ (Bad(post.text) \/ Bad(post.text2)) =>
              /\ page.error /\ ~page.path_shown
              /\ page.gaps_shown <=> (~Bad(post.text) /\ loads(search(post.text2)).ok)
        /\ (~Bad(post.text) /\ ~Bad(post.text2)) =>
              /\ ~page.error /\ page.gaps_shown /\ page.path_shown
              /\ ~BracketPair(post.text) => page.gaps = 0
              /\ ~BracketPair(post.text2) => page.path = 0

\* the skill gaps are rendered, then the path's items turn out not to be objects
C14_Witness ==
    /\ post.op = "render"
    /\ post.text = <<"[", "o", "]">>
    /\ post.text2 = <<"[", "8", "]">>
    /\ post.page.error /\ post.page.gaps_shown /\ post.page.gaps = 1
    /\ ~post.page.path_shown

====
